---- MODULE Spec2Model ----
(***************************************************************************)
(* A model of nicetry.py: the Try / Success / Failure outcome type, its    *)
(* factory, its combinators and its iteration protocol.                    *)
(*                                                                         *)
(* Python objects are records [cls, val, msg]; a Try instance lives in     *)
(* `heap` and is referred to by its index (its identity).  A caller        *)
(* supplied callable is modelled by what one invocation of it does: it     *)
(* returns an object or raises one.                                        *)
(***************************************************************************)
EXTENDS Integers, Sequences, FiniteSets, TLC

VARIABLES heap, last, passes

vars == <<heap, last, passes>>

(* ---------------- bounds ---------------- *)
MaxObjs == 2
MaxVal == 2
MaxYield == 3

\* the two loops of `for x in t: for y in t: ...`, or two consumers sharing t
Consumers == {"outer", "inner"}

(* ---------------- Python objects ---------------- *)
PyInt(n) == [cls |-> "int", val |-> n, msg |-> ""]
None == [cls |-> "NoneType", val |-> 0, msg |-> ""]
Err(c, m) == [cls |-> c, val |-> 0, msg |-> m]
Ref(i) == [cls |-> "Try", val |-> i, msg |-> ""]

\* subclasses of Exception: what `except Exception` catches
IsException(o) ==
  o.cls \in {"ValueError", "TypeError", "StopIteration", "UnsupportedOperationException"}

\* anything `raise` accepts; KeyboardInterrupt derives from BaseException only
IsBaseException(o) == IsException(o) \/ o.cls = "KeyboardInterrupt"

StopIteration == Err("StopIteration", "")

\* class UnsupportedOperationException(Exception), raised as ("Success.failed")
UnsupportedOperationException(m) == Err("UnsupportedOperationException", m)

\* outcome of one Python call
Ret(o) == [kind |-> "return", obj |-> o]
Raise(e) == [kind |-> "raise", obj |-> e]

(* ---------------- inputs ---------------- *)
Values == {PyInt(n) : n \in 1..MaxVal}
UserErrors == {Err("ValueError", "a"), Err("StopIteration", "user"), Err("KeyboardInterrupt", "")}
Raises == {Raise(e) : e \in UserErrors}
\* a thunk, or the function given to map
Behaviours == {Ret(v) : v \in Values} \cup Raises
\* the function given to flat_map returns a Try
TryBehaviours(h) == {Ret(Ref(i)) : i \in 1..Len(h)} \cup Raises
\* the function given to for_each
EachBehaviours == {Ret(None), Ret(PyInt(1))} \cup Raises

(* ---------------- constructors ---------------- *)
Success(v) == [variant |-> "Success", value |-> v, has_next |-> TRUE]
Failure(e) == [variant |-> "Failure", value |-> e]

is_failure(t) == t.variant = "Failure"
is_success(t) == t.variant = "Success"

\* result of an operation: the heap after it, what the caller gets, and the
\* argument lists the caller's callable received, in order
Res(h, o, c) == [heap |-> h, out |-> o, calls |-> c]
New(h) == Ref(Len(h) + 1)

(* ---------------- Try ---------------- *)
get(t) ==
  IF is_success(t) THEN Ret(t.value)
  ELSE IF IsBaseException(t.value) THEN Raise(t.value)
  ELSE Raise(Err("TypeError", "exceptions must derive from BaseException"))

\* mutant: the factory evaluates the callable a second time
to_reinvoke(h, thunk) ==
  IF thunk.out.kind = "return"
  THEN Res(Append(h, Success(thunk.out.obj)), Ret(New(h)), thunk.calls \o thunk.calls)
  ELSE IF IsException(thunk.out.obj)
  THEN Res(Append(h, Failure(thunk.out.obj)), Ret(New(h)), thunk.calls \o thunk.calls)
  ELSE Res(h, thunk.out, thunk.calls \o thunk.calls)

\* thunk = [out, calls]: what one invocation of the callable does
to(h, thunk) ==
  IF thunk.out.kind = "return"
  THEN Res(Append(h, Success(thunk.out.obj)), Ret(New(h)), thunk.calls)
  ELSE IF IsException(thunk.out.obj)
  THEN Res(Append(h, Failure(thunk.out.obj)), Ret(New(h)), thunk.calls)
  ELSE Res(h, thunk.out, thunk.calls)

\* one invocation of the caller's callable f with the argument list args
Call(f, args) == [out |-> f, calls |-> <<args>>]

apply(h, thunk) == to(h, thunk)

\* mutant: failed() on a Success boxes the bare message, not an exception
failed_bare_message(h, s) ==
  IF is_failure(h[s])
  THEN Res(Append(h, Success(h[s].value)), Ret(New(h)), <<>>)
  ELSE Res(Append(h, Failure([cls |-> "str", val |-> 0, msg |-> "Success.failed"])),
           Ret(New(h)), <<>>)

\* mutant: failed() inverts the receiver in place
failed_in_place(h, s) ==
  IF is_failure(h[s])
  THEN Res([h EXCEPT ![s] = Success(h[s].value)], Ret(Ref(s)), <<>>)
  ELSE Res([h EXCEPT ![s] = Failure(UnsupportedOperationException("Success.failed"))],
           Ret(Ref(s)), <<>>)

failed(h, s) ==
  IF is_failure(h[s])
  THEN Res(Append(h, Success(h[s].value)), Ret(New(h)), <<>>)
  ELSE Res(Append(h, Failure(UnsupportedOperationException("Success.failed"))),
           Ret(New(h)), <<>>)

get_or_else(h, s, default_value) ==
  IF is_failure(h[s]) THEN Res(h, Ret(default_value), <<>>)
  ELSE Res(h, get(h[s]), <<>>)

\* f(self.get()): get first, and f only if get returned
CallOnGet(t, f) ==
  IF get(t).kind = "raise" THEN [out |-> get(t), calls |-> <<>>]
  ELSE Call(f, <<get(t).obj>>)

\* mutant: flat_map goes through the factory, boxing what f returned
flat_map_via_to(h, s, f) == to(h, CallOnGet(h[s], f))

flat_map(h, s, f) ==
  LET r == CallOnGet(h[s], f) IN
  IF r.out.kind = "raise" /\ IsException(r.out.obj)
  THEN Res(Append(h, Failure(r.out.obj)), Ret(New(h)), r.calls)
  ELSE Res(h, r.out, r.calls)

\* mutant: map on a Failure builds a new Failure around the same error
map_rewrap(h, s, f) ==
  IF is_success(h[s]) THEN to(h, CallOnGet(h[s], f))
  ELSE Res(Append(h, Failure(h[s].value)), Ret(New(h)), <<>>)

map(h, s, f) ==
  IF is_success(h[s]) THEN to(h, CallOnGet(h[s], f))
  ELSE Res(h, Ret(Ref(s)), <<>>)

or_else(h, s, t) ==
  IF is_success(h[s]) THEN Res(h, Ret(Ref(s)), <<>>)
  ELSE Res(h, Ret(Ref(t)), <<>>)

\* Success.for_each is `return f(self.get())`; Failure.for_each is `pass`
for_each(h, s, f) ==
  IF is_success(h[s])
  THEN Res(h, CallOnGet(h[s], f).out, CallOnGet(h[s], f).calls)
  ELSE Res(h, Ret(None), <<>>)

iter__(h, s) == Res(h, Ret(Ref(s)), <<>>)

\* mutant: Failure.__next__ raises the held error, as Failure.get does
next__raises_held(h, s) ==
  IF is_success(h[s])
  THEN IF h[s].has_next
       THEN Res([h EXCEPT ![s].has_next = FALSE], Ret(h[s].value), <<>>)
       ELSE Res([h EXCEPT ![s].has_next = TRUE], Raise(StopIteration), <<>>)
  ELSE Res(h, Raise(h[s].value), <<>>)

next__(h, s) ==
  IF is_success(h[s])
  THEN IF h[s].has_next
       THEN Res([h EXCEPT ![s].has_next = FALSE], Ret(h[s].value), <<>>)
       ELSE Res([h EXCEPT ![s].has_next = TRUE], Raise(StopIteration), <<>>)
  ELSE Res(h, Raise(StopIteration), <<>>)

NoPasses ==
  [c \in Consumers |-> [obj |-> 0, status |-> "idle", yielded |-> <<>>, alone |-> TRUE]]

NoOp ==
  [op |-> "init", self |-> 0, arg |-> Ret(None), out |-> Ret(None), calls |-> <<>>,
   pre |-> 0]

Init ==
  /\ heap = <<>>
  /\ last = NoOp
  /\ passes = NoPasses

Done(op, s, a, r) ==
  /\ Len(r.heap) <= MaxObjs
  /\ heap' = r.heap
  /\ last' = [op |-> op, self |-> s, arg |-> a, out |-> r.out, calls |-> r.calls,
              pre |-> Len(heap)]
  /\ UNCHANGED passes

To == \E f \in Behaviours : Done("to", 0, f, to(heap, Call(f, <<>>)))

Apply == \E f \in Behaviours : Done("apply", 0, f, apply(heap, Call(f, <<>>)))

Get == \E s \in 1..Len(heap) : Done("get", s, Ret(None), Res(heap, get(heap[s]), <<>>))

Failed == \E s \in 1..Len(heap) : Done("failed", s, Ret(None), failed(heap, s))

GetOrElse ==
  \E s \in 1..Len(heap), d \in Values :
    Done("get_or_else", s, Ret(d), get_or_else(heap, s, d))

FlatMap ==
  \E s \in 1..Len(heap), f \in TryBehaviours(heap) :
    Done("flat_map", s, f, flat_map(heap, s, f))

Map == \E s \in 1..Len(heap), f \in Behaviours : Done("map", s, f, map(heap, s, f))

OrElse ==
  \E s \in 1..Len(heap), t \in 1..Len(heap) :
    Done("or_else", s, Ret(Ref(t)), or_else(heap, s, t))

ForEach ==
  \E s \in 1..Len(heap), f \in EachBehaviours :
    Done("for_each", s, f, for_each(heap, s, f))

Iter == \E s \in 1..Len(heap) : Done("__iter__", s, Ret(None), iter__(heap, s))

IterNext == \E s \in 1..Len(heap) : Done("__next__", s, Ret(None), next__(heap, s))

Next ==
  \/ To
  \/ Apply
  \/ Get
  \/ Failed
  \/ GetOrElse
  \/ FlatMap
  \/ Map
  \/ OrElse
  \/ ForEach
  \/ Iter
  \/ IterNext

Spec == Init /\ [][Next]_vars

(* ---------------- iteration passes ---------------- *)
\* `for x in t:` calls iter(t) once, then next() until StopIteration; the body
\* may `break` after an element.  Execution is single-threaded: the inner loop
\* runs inside the body of the outer one (after an element of the outer pass),
\* and the outer loop takes no step until the inner loop is over.  A pass is
\* `alone` while no other pass over the same instance is in progress.
Running(c, s) == passes[c].status = "running" /\ passes[c].obj = s

InBody(c) == passes[c].status = "running" /\ Len(passes[c].yielded) >= 1

MayStart(c) ==
  /\ passes[c].status # "running"
  /\ IF c = "inner" THEN InBody("outer") ELSE passes["inner"].status # "running"

MayStep(c) ==
  /\ passes[c].status = "running"
  /\ c = "outer" => passes["inner"].status # "running"

PassStart ==
  \E c \in Consumers, s \in 1..Len(heap) :
    /\ MayStart(c)
    /\ LET r == iter__(heap, s)
           it == r.out.obj.val
           others == {d \in Consumers \ {c} : Running(d, it)}
       IN /\ heap' = r.heap
          /\ last' = [op |-> "__iter__", self |-> s, arg |-> Ret(None), out |-> r.out,
                      calls |-> r.calls, pre |-> Len(heap)]
          /\ passes' = [d \in Consumers |->
                          IF d = c
                          THEN [obj |-> it, status |-> "running", yielded |-> <<>>,
                                alone |-> others = {}]
                          ELSE IF d \in others THEN [passes[d] EXCEPT !.alone = FALSE]
                          ELSE passes[d]]

PassStep ==
  \E c \in Consumers :
    /\ MayStep(c)
    /\ LET r == next__(heap, passes[c].obj)
       IN /\ r.out.kind = "return" => Len(passes[c].yielded) < MaxYield
          /\ heap' = r.heap
          /\ last' = [op |-> "__next__", self |-> passes[c].obj, arg |-> Ret(None),
                      out |-> r.out, calls |-> r.calls, pre |-> Len(heap)]
          /\ passes' = [passes EXCEPT ![c] =
                          IF r.out.kind = "return"
                          THEN [@ EXCEPT !.yielded = Append(@, r.out.obj)]
                          ELSE IF r.out.obj.cls = "StopIteration"
                          THEN [@ EXCEPT !.status = "ended"]
                          ELSE [@ EXCEPT !.status = "raised"]]

PassBreak ==
  \E c \in Consumers :
    /\ MayStep(c)
    /\ Len(passes[c].yielded) >= 1
    /\ passes' = [passes EXCEPT ![c].status = "broken"]
    /\ UNCHANGED <<heap, last>>

\* instances built by calling the constructors directly
InitIter ==
  /\ \E v \in Values, e \in {x \in UserErrors : IsException(x)} :
       heap = <<Success(v), Failure(e)>>
  /\ last = NoOp
  /\ passes = NoPasses

NextIter ==
  \/ PassStart
  \/ PassStep
  \/ PassBreak
  \/ Get

SpecIter == InitIter /\ [][NextIter]_vars

(* ---------------- properties of the factory and combinators (Spec) ------- *)
\* the instance the last operation allocated
Fresh == heap[last.pre + 1]
Allocated == Len(heap) = last.pre + 1 /\ last.out = Ret(Ref(last.pre + 1))
\* the last operation handed back an existing object and allocated nothing
Returned(o) == Len(heap) = last.pre /\ last.out = Ret(o)
Caught == last.arg.kind = "raise" /\ IsException(last.arg.obj)
UserStop == Err("StopIteration", "user")

\* C1: Try.to / Try.apply invoke the computation exactly once; a returned v
\* gives a Success whose get() is v, a raised Exception e gives a Failure
\* holding e and the factory itself returns normally.
C1_FactoryCaptures ==
  last.op \in {"to", "apply"} =>
    /\ last.calls = << <<>> >>
    /\ last.arg.kind = "return" =>
         /\ Allocated
         /\ is_success(Fresh) /\ ~is_failure(Fresh)
         /\ get(Fresh) = Ret(last.arg.obj)
    /\ Caught =>
         /\ Allocated
         /\ is_failure(Fresh) /\ ~is_success(Fresh)
         /\ Fresh.value = last.arg.obj

C1_Witness ==
  /\ Len(heap) = 2
  /\ last.op = "apply"
  /\ last.arg = Raise(Err("ValueError", "a"))
  /\ is_success(heap[1])
  /\ is_failure(heap[2])

\* C2: a StopIteration raised by the computation given to Try.to, or by the
\* function map / flat_map applied to a Success, reaches the caller unchanged
\* and no Failure holding it is created.
C2_SentinelPropagates ==
  (/\ last.op \in {"to", "apply", "map", "flat_map"}
   /\ last.calls # <<>>
   /\ last.arg = Raise(UserStop))
    => /\ last.out = Raise(UserStop)
       /\ Len(heap) = last.pre

\* C4: map(f) on Success(v) calls f once with v and gives Success(f(v)), or a
\* Failure holding the Exception f raised; map(f) on a Failure returns that
\* very instance and never calls f.
C4_Map ==
  last.op = "map" =>
    /\ is_success(heap[last.self]) =>
         /\ last.calls = << <<heap[last.self].value>> >>
         /\ last.arg.kind = "return" =>
              Allocated /\ is_success(Fresh) /\ Fresh.value = last.arg.obj
         /\ Caught =>
              Allocated /\ is_failure(Fresh) /\ Fresh.value = last.arg.obj
    /\ is_failure(heap[last.self]) =>
         /\ last.calls = <<>>
         /\ Returned(Ref(last.self))

C4_Witness ==
  /\ last.op = "map"
  /\ is_failure(heap[last.self])
  /\ last.arg.kind = "return"
  /\ \E i \in 1..Len(heap) : is_success(heap[i])

\* C5: flat_map(f) on Success(v) returns the very Try f(v) returned, or a
\* Failure holding the Exception f raised; on Failure(e) it never calls f and
\* returns a Failure holding e; flat_map itself returns normally.
C5_FlatMap ==
  last.op = "flat_map" =>
    /\ is_success(heap[last.self]) =>
         /\ last.calls = << <<heap[last.self].value>> >>
         /\ last.arg.kind = "return" => Returned(last.arg.obj)
         /\ Caught =>
              Allocated /\ is_failure(Fresh) /\ Fresh.value = last.arg.obj
    /\ is_failure(heap[last.self]) =>
         /\ last.calls = <<>>
         /\ Allocated
         /\ is_failure(Fresh)
         /\ Fresh.value = heap[last.self].value

C5_Witness ==
  /\ last.op = "flat_map"
  /\ is_failure(heap[last.self])
  /\ last.arg.kind = "raise"
  /\ Allocated

\* C7: for_each(f) on Success(v) calls f once with v and itself yields no
\* result (None) whatever f returned; on a Failure it never calls f, raises
\* nothing and yields None.
C7_ForEach ==
  last.op = "for_each" =>
    /\ is_success(heap[last.self]) =>
         /\ last.calls = << <<heap[last.self].value>> >>
         /\ last.arg.kind = "return" => last.out = Ret(None)
    /\ is_failure(heap[last.self]) =>
         /\ last.calls = <<>>
         /\ last.out = Ret(None)

\* C8: no Success holds an error object and every Failure holds one.
C8_PayloadKinds ==
  \A i \in 1..Len(heap) :
    /\ is_success(heap[i]) => ~IsBaseException(heap[i].value)
    /\ is_failure(heap[i]) => IsBaseException(heap[i].value)

\* C8 as amended: every Failure holds an error object, and failed() on a
\* Failure holding e gives a Success whose payload is that error object e.
C8_FailureHoldsError ==
  /\ \A i \in 1..Len(heap) : is_failure(heap[i]) => IsBaseException(heap[i].value)
  /\ (last.op = "failed" /\ is_failure(heap[last.self])) =>
       /\ Allocated
       /\ is_success(Fresh)
       /\ Fresh.value = heap[last.self].value
       /\ IsBaseException(Fresh.value)

C8_Witness ==
  /\ last.op = "failed"
  /\ is_failure(heap[last.self])
  /\ Len(heap) = last.pre + 1
  /\ is_success(Fresh)

\* C9: no operation changes the variant or the payload of an existing
\* instance, so is_success / is_failure stay complementary and get() keeps its
\* outcome; only __next__ changes anything, and only the cursor of the Success
\* it is called on.
C9_Frame ==
  [][\A i \in 1..Len(heap) :
       /\ i <= Len(heap')
       /\ heap'[i].variant = heap[i].variant
       /\ heap'[i].value = heap[i].value
       /\ is_success(heap'[i]) # is_failure(heap'[i])
       /\ get(heap'[i]) = get(heap[i])
       /\ ~(last'.op = "__next__" /\ last'.self = i /\ is_success(heap[i]))
            => heap'[i] = heap[i]]_vars

C9_Witness ==
  /\ last.op = "failed"
  /\ is_success(heap[last.self])
  /\ ~heap[last.self].has_next
  /\ Len(heap) = last.pre + 1

(* ---------------- properties of iteration (SpecIter) ---------------- *)
Target(c) == heap[passes[c].obj]

\* C3: a pass over a Success made while no other pass over it is in progress
\* yields the value exactly once before it ends, whatever earlier passes did.
C3_Restartable ==
  \A c \in Consumers :
    (/\ passes[c].status = "ended"
     /\ passes[c].alone
     /\ is_success(Target(c)))
      => passes[c].yielded = <<Target(c).value>>

\* C10: no pass over a Success produces more than one element, also when
\* another pass over the same instance runs between two of its steps.
C10_AtMostOne ==
  \A c \in Consumers :
    (passes[c].obj # 0 /\ is_success(Target(c))) => Len(passes[c].yielded) <= 1

\* C6: a pass over a Failure ends at its first step with no element and never
\* raises the held error; __next__ on a Failure raises StopIteration, and get()
\* on it raises the held error, in any interleaving of the two.
C6_FailureIteration ==
  /\ \A c \in Consumers :
       (passes[c].obj # 0 /\ is_failure(Target(c))) =>
         /\ passes[c].yielded = <<>>
         /\ passes[c].status \in {"running", "ended"}
  /\ (last.op = "__next__" /\ is_failure(heap[last.self])) =>
       last.out = Raise(StopIteration)
  /\ (last.op = "get" /\ is_failure(heap[last.self])) =>
       last.out = Raise(heap[last.self].value)

C6_Witness ==
  /\ last.op = "get"
  /\ is_failure(heap[last.self])
  /\ last.out.kind = "raise"
  /\ \E c \in Consumers :
       /\ passes[c].obj = last.self
       /\ passes[c].status = "ended"
====
